---- MODULE Spec2Model ----
(***************************************************************************)
(* sjtu::map (src/src/map.hpp): an AVL tree of nodes linked by left,       *)
(* right and parent pointers, with iterators that hold a node pointer and  *)
(* a pointer to the owning map.                                            *)
(*                                                                         *)
(* The heap is a function from addresses to cells; a cell is either free   *)
(* or holds one Node.  Two map objects, "a" and "b", live in the same      *)
(* heap.  Every private helper of the class is an operator that takes the  *)
(* fields the C++ function can reach (the heap and the fields of *this)    *)
(* and returns them as the function leaves them.                           *)
(***************************************************************************)
EXTENDS Integers, Sequences, FiniteSets, TLC

VARIABLES heap, root, nodeCount, it, last

vars == <<heap, root, nodeCount, it, last>>

\* ------------------------------------------------------------------ bounds

\* The keys are 1..NumKeys, and the heap has a cell for every key of each of
\* the two maps; the mapped values are 0..MaxVal.
NumKeys == 4
MaxVal == 1
\* The keys of the specification SpecCursor are 1..NumCursorKeys.
NumCursorKeys == 3
\* The keys (and the heap cells) of the single-map specification SpecTree.
NumTreeKeys == 8

\* The heap cells of the specification SpecOom, where allocation can fail.
NumOomCells == 3

\* The round trips of insertions and erasures use the keys 1..NumRoundTripKeys.
NumRoundTripKeys == 4

Keys == 1..NumKeys
CursorKeys == 1..NumCursorKeys
Vals == 0..MaxVal
TreeKeys == 1..NumTreeKeys
Maps == {"a", "b"}

\* ------------------------------------------------------------------ heap

\* nullptr
Null == 0

\* The value-initialised mapped value, T().
DefaultT == 0

\* A cell that holds no object (never allocated, or deleted).
FreeCell ==
    [alive |-> FALSE, key |-> 0, val |-> 0, left |-> Null, right |-> Null,
     parent |-> Null, height |-> 0]

\* Node::Node(v, p)
Node(k, v, p) ==
    [alive |-> TRUE, key |-> k, val |-> v, left |-> Null, right |-> Null,
     parent |-> p, height |-> 1]

Min(S) == CHOOSE x \in S : \A y \in S : x <= y

FreeCells(h) == {i \in DOMAIN h : ~h[i].alive}

\* The cell the allocator prefers for the node of key k made by map m.
CellOf(m, k) == IF m = "a" THEN k ELSE NumKeys + k

\* operator new, called by map this for a node of key k: the address of a free
\* cell, or Null when there is none (the C++ expression then throws
\* std::bad_alloc).  Which free cell it returns is up to the allocator, and the
\* program only ever compares addresses for equality, so runs that differ in
\* that choice are the same up to a renaming of the cells.  The allocator
\* modelled returns CellOf(this, k) when that cell is free, and the lowest
\* free cell otherwise.
NewCell(h, this, k) ==
    IF FreeCells(h) = {} THEN Null
    ELSE IF CellOf(this, k) \in FreeCells(h) THEN CellOf(this, k)
    ELSE Min(FreeCells(h))

\* The fields of *this together with the heap.
This(m) ==
    [this |-> m, heap |-> heap, root |-> root[m], nodeCount |-> nodeCount[m]]

\* ---------------------------------------------------------- comparator

\* Compare = std::less<Key>
cmp(a, b) == a < b

keyEq(a, b) == ~cmp(a, b) /\ ~cmp(b, a)

\* ------------------------------------------------------------- helpers

RECURSIVE minNode(_, _)
minNode(h, x) ==
    IF x = Null THEN Null
    ELSE IF h[x].left # Null THEN minNode(h, h[x].left) ELSE x

RECURSIVE maxNode(_, _)
maxNode(h, x) ==
    IF x = Null THEN Null
    ELSE IF h[x].right # Null THEN maxNode(h, h[x].right) ELSE x

\* findNode(key), with cur the loop variable (root at the call).
RECURSIVE findNode(_, _, _)
findNode(h, cur, key) ==
    IF cur = Null THEN Null
    ELSE IF keyEq(key, h[cur].key) THEN cur
    ELSE IF cmp(key, h[cur].key) THEN findNode(h, h[cur].left, key)
    ELSE findNode(h, h[cur].right, key)

heightOf(h, n) == IF n = Null THEN 0 ELSE h[n].height

\* update that looks at the left subtree alone.
updateLeftOnly(h, n) ==
    IF n = Null THEN h ELSE [h EXCEPT ![n].height = 1 + heightOf(h, h[n].left)]

update(h, n) ==
    IF n = Null THEN h
    ELSE LET hl == heightOf(h, h[n].left)
             hr == heightOf(h, h[n].right)
         IN  [h EXCEPT ![n].height = (IF hl > hr THEN hl ELSE hr) + 1]

balance(h, n) == heightOf(h, h[n].right) - heightOf(h, h[n].left)

\* ------------------------------------------------------------ rotations

\* if (n) n->parent = p;
SetParent(h, n, p) == IF n = Null THEN h ELSE [h EXCEPT ![n].parent = p]

\* The child link of p that points to old made to point to new, as rotateLeft,
\* rotateRight and transplant do it: nothing in the heap when p is nullptr (the
\* root is set then), p->left when it is old, p->right otherwise.
ReplaceChild(h, p, old, new) ==
    IF p = Null THEN h
    ELSE IF h[p].left = old THEN [h EXCEPT ![p].left = new]
    ELSE [h EXCEPT ![p].right = new]

\* rotateLeft without B->parent = x.
rotateLeftStaleChild(st, x) ==
    [st EXCEPT
        !.heap = update(update(
            ReplaceChild(
                [st.heap EXCEPT ![st.heap[x].right].left = x,
                                ![x].right = st.heap[st.heap[x].right].left,
                                ![st.heap[x].right].parent = st.heap[x].parent,
                                ![x].parent = st.heap[x].right],
                st.heap[x].parent, x, st.heap[x].right), x), st.heap[x].right),
        !.root = IF st.heap[x].parent = Null THEN st.heap[x].right ELSE st.root]

\* The four assignments to x and y write different fields, none of them read
\* by a later statement of the function before it is written.
rotateLeft(st, x) ==
    LET y == st.heap[x].right
        B == st.heap[st.heap[x].right].left
        p == st.heap[x].parent
    IN  [st EXCEPT
            !.heap = update(update(
                ReplaceChild(
                    SetParent([st.heap EXCEPT ![y].left = x, ![x].right = B,
                                              ![y].parent = p, ![x].parent = y],
                              B, x),
                    p, x, y), x), y),
            !.root = IF p = Null THEN y ELSE st.root]

rotateRight(st, y) ==
    LET x == st.heap[y].left
        B == st.heap[st.heap[y].left].right
        p == st.heap[y].parent
    IN  [st EXCEPT
            !.heap = update(update(
                ReplaceChild(
                    SetParent([st.heap EXCEPT ![x].right = y, ![y].left = B,
                                              ![x].parent = p, ![y].parent = x],
                              B, y),
                    p, y, x), y), x),
            !.root = IF p = Null THEN x ELSE st.root]

\* The rotations of rebalanceAt(n), on the state s1 in which n's height is
\* up to date.
rebalanceRotate(s1, n) ==
    IF balance(s1.heap, n) > 1
    THEN rotateLeft(IF balance(s1.heap, s1.heap[n].right) < 0
                    THEN rotateRight(s1, s1.heap[n].right) ELSE s1, n)
    ELSE IF balance(s1.heap, n) < -1
    THEN rotateRight(IF balance(s1.heap, s1.heap[n].left) > 0
                     THEN rotateLeft(s1, s1.heap[n].left) ELSE s1, n)
    ELSE s1

\* rebalanceAt that recomputes the height and never rotates.
rebalanceAtNoRotate(st, n) ==
    IF n = Null THEN st ELSE [st EXCEPT !.heap = update(st.heap, n)]

\* rebalanceAt(n)
rebalanceAt(st, n) ==
    IF n = Null THEN st
    ELSE rebalanceRotate([st EXCEPT !.heap = update(st.heap, n)], n)

\* rebalanceUp that stops after the node it starts at.
rebalanceUpOnce(st, cur) == rebalanceAt(st, cur)

\* rebalanceUp(start), with cur the loop variable; rebalanceUpNext is the
\* loop's step cur = cur->parent, on the state rebalanceAt(cur) left.
RECURSIVE rebalanceUp(_, _)
rebalanceUpNext(s1, cur) == rebalanceUp(s1, s1.heap[cur].parent)

rebalanceUp(st, cur) ==
    IF cur = Null THEN st ELSE rebalanceUpNext(rebalanceAt(st, cur), cur)

\* ------------------------------------------------------------- insert

\* The descent of insert: the loop's variables when it ends, with found set
\* when it ends by the early return on a key-equivalent node.
\* The descent of insert with the two sides exchanged.
RECURSIVE insertDescendWrongSide(_, _, _, _, _)
insertDescendWrongSide(h, cur, parent, isLeft, key) ==
    IF cur = Null
    THEN [found |-> FALSE, cur |-> cur, parent |-> parent, isLeft |-> isLeft]
    ELSE IF keyEq(key, h[cur].key)
    THEN [found |-> TRUE, cur |-> cur, parent |-> parent, isLeft |-> isLeft]
    ELSE IF cmp(h[cur].key, key)
    THEN insertDescendWrongSide(h, h[cur].left, cur, TRUE, key)
    ELSE insertDescendWrongSide(h, h[cur].right, cur, FALSE, key)

\* The descent of insert without the test for an equivalent key.
RECURSIVE insertDescendNoEq(_, _, _, _, _)
insertDescendNoEq(h, cur, parent, isLeft, key) ==
    IF cur = Null
    THEN [found |-> FALSE, cur |-> cur, parent |-> parent, isLeft |-> isLeft]
    ELSE IF cmp(key, h[cur].key)
    THEN insertDescendNoEq(h, h[cur].left, cur, TRUE, key)
    ELSE insertDescendNoEq(h, h[cur].right, cur, FALSE, key)

RECURSIVE insertDescend(_, _, _, _, _)
insertDescend(h, cur, parent, isLeft, key) ==
    IF cur = Null
    THEN [found |-> FALSE, cur |-> cur, parent |-> parent, isLeft |-> isLeft]
    ELSE IF keyEq(key, h[cur].key)
    THEN [found |-> TRUE, cur |-> cur, parent |-> parent, isLeft |-> isLeft]
    ELSE IF cmp(key, h[cur].key)
    THEN insertDescend(h, h[cur].left, cur, TRUE, key)
    ELSE insertDescend(h, h[cur].right, cur, FALSE, key)

\* The rest of insert after the descent d ended at an absent child: the new
\* node in cell node (Null when new throws), linked under d.parent.
insertLink(st, d, node, key, val) ==
    IF node = Null
    THEN [st |-> st, first |-> Null, second |-> FALSE, exc |-> "bad_alloc"]
    ELSE [st |-> rebalanceUp(
                    [st EXCEPT
                        !.heap = IF d.parent = Null
                                 THEN [@ EXCEPT ![node] = Node(key, val, d.parent)]
                                 ELSE IF d.isLeft
                                 THEN [@ EXCEPT ![node] = Node(key, val, d.parent),
                                                ![d.parent].left = node]
                                 ELSE [@ EXCEPT ![node] = Node(key, val, d.parent),
                                                ![d.parent].right = node],
                        !.root = IF d.parent = Null THEN node ELSE @,
                        !.nodeCount = @ + 1],
                    d.parent),
          first |-> node, second |-> TRUE, exc |-> "none"]

\* The end of insert's descent d.
insertAt(st, d, key, val) ==
    IF d.found
    THEN [st |-> st, first |-> d.cur, second |-> FALSE, exc |-> "none"]
    ELSE insertLink(st, d, NewCell(st.heap, st.this, key), key, val)

\* insert(value): the state it leaves, the returned pair (first is the node
\* of the returned iterator) and the exception thrown, if any.
insert(st, key, val) ==
    insertAt(st, insertDescend(st.heap, st.root, Null, FALSE, key), key, val)

\* ------------------------------------------------------------- erase

\* transplant that leaves root alone when u is the root.
transplantNoRoot(st, u, v) ==
    [st EXCEPT !.heap = SetParent(ReplaceChild(st.heap, st.heap[u].parent, u, v),
                                  v, st.heap[u].parent)]

transplant(st, u, v) ==
    LET p == st.heap[u].parent
    IN  [st EXCEPT !.heap = SetParent(ReplaceChild(st.heap, p, u, v), v, p),
                   !.root = IF p = Null THEN v ELSE st.root]

\* delete z without --nodeCount.
deleteNodeNoCount(st, z) == [st EXCEPT !.heap = [@ EXCEPT ![z] = FreeCell]]

\* delete z; --nodeCount;
deleteNode(st, z) ==
    [st EXCEPT !.heap = [@ EXCEPT ![z] = FreeCell], !.nodeCount = @ - 1]

\* s->right = z->right; if (s->right) s->right->parent = s;
adoptRight(st, s, z) ==
    [st EXCEPT !.heap = SetParent([@ EXCEPT ![s].right = st.heap[z].right],
                                  st.heap[z].right, s)]

\* The graft of the successor without s->left = z->left.
adoptLeftDropped(st, s, z) == st

\* s->left = z->left; if (s->left) s->left->parent = s;
adoptLeft(st, s, z) ==
    [st EXCEPT !.heap = SetParent([@ EXCEPT ![s].left = st.heap[z].left],
                                  st.heap[z].left, s)]

\* The two-children branch done by copying: the key and the value of the
\* successor s are written into z, and s is unlinked and deleted in its place.
eraseTwoChildrenByCopy(st, z, s) ==
    rebalanceUp(
        [transplant([st EXCEPT !.heap = [@ EXCEPT ![z].key = st.heap[s].key,
                                                  ![z].val = st.heap[s].val]],
                    s, st.heap[s].right)
            EXCEPT !.heap = [@ EXCEPT ![s] = FreeCell], !.nodeCount = @ - 1],
        st.heap[s].parent)

\* The two-children branch of eraseNode(z), with s the successor.  Splicing s
\* out writes neither z->parent nor z->left, which are read after it.
eraseTwoChildren(st, z, s) ==
    LET direct == (st.heap[s].parent = z)
        rebalanceStart == IF st.heap[s].parent # z THEN st.heap[s].parent ELSE s
        parent == st.heap[z].parent
    IN  rebalanceUp(
            rebalanceUp(
                deleteNode(
                    adoptLeft(
                        transplant(
                            IF direct THEN st
                            ELSE adoptRight(transplant(st, s, st.heap[s].right), s, z),
                            z, s),
                        s, z),
                    z),
                rebalanceStart),
            parent)

eraseNode(st, z) ==
    IF z = Null THEN st
    ELSE IF st.heap[z].left = Null \/ st.heap[z].right = Null
    THEN LET child  == IF st.heap[z].left # Null THEN st.heap[z].left
                       ELSE st.heap[z].right
             parent == st.heap[z].parent
         IN  rebalanceUp(deleteNode(transplant(st, z, child), z), parent)
    ELSE eraseTwoChildren(st, z, minNode(st.heap, st.heap[z].right))

\* ------------------------------------------------- clone and destroy

\* destroySubtree(n): the heap with every node under n deleted, children
\* before the node.
RECURSIVE destroySubtree(_, _)
destroySubtree(h, n) ==
    IF n = Null THEN h
    ELSE LET h1 == destroySubtree(h, h[n].left)
             h2 == destroySubtree(h1, h[n].right)
         IN  [h2 EXCEPT ![n] = FreeCell]

\* cloneSubtree without update(m): every cloned node keeps the height 1 its
\* constructor gave it.
RECURSIVE cloneSubtreeNoUpdate(_, _, _, _)
cloneSubtreeNoUpdate(h, this, n, parent) ==
    IF n = Null THEN [heap |-> h, node |-> Null, ok |-> TRUE]
    ELSE LET m == NewCell(h, this, h[n].key)
         IN  IF m = Null THEN [heap |-> h, node |-> Null, ok |-> FALSE]
             ELSE LET h1 == [h EXCEPT ![m] = Node(h[n].key, h[n].val, parent)]
                      L  == cloneSubtreeNoUpdate(h1, this, h1[n].left, m)
                  IN  IF ~L.ok THEN [heap |-> L.heap, node |-> Null, ok |-> FALSE]
                      ELSE LET h2 == [L.heap EXCEPT ![m].left = L.node]
                               R  == cloneSubtreeNoUpdate(h2, this, h2[n].right, m)
                           IN  IF ~R.ok
                               THEN [heap |-> R.heap, node |-> Null, ok |-> FALSE]
                               ELSE [heap |-> [R.heap EXCEPT ![m].right = R.node],
                                     node |-> m, ok |-> TRUE]

\* cloneSubtree that returns the node it was given instead of a copy of it.
cloneSubtreeShallow(h, this, n, parent) == [heap |-> h, node |-> n, ok |-> TRUE]

\* cloneSubtree(n, parent) of map this: the heap after the call, the node returned and
\* whether the call returned (ok) or left by std::bad_alloc from one of its
\* new expressions; the nodes allocated before the throw stay allocated.
RECURSIVE cloneSubtree(_, _, _, _)
cloneSubtree(h, this, n, parent) ==
    IF n = Null THEN [heap |-> h, node |-> Null, ok |-> TRUE]
    ELSE LET m == NewCell(h, this, h[n].key)
         IN  IF m = Null THEN [heap |-> h, node |-> Null, ok |-> FALSE]
             ELSE LET h1 == [h EXCEPT ![m] = Node(h[n].key, h[n].val, parent)]
                      L  == cloneSubtree(h1, this, h1[n].left, m)
                  IN  IF ~L.ok THEN [heap |-> L.heap, node |-> Null, ok |-> FALSE]
                      ELSE LET h2 == [L.heap EXCEPT ![m].left = L.node]
                               R  == cloneSubtree(h2, this, h2[n].right, m)
                           IN  IF ~R.ok
                               THEN [heap |-> R.heap, node |-> Null, ok |-> FALSE]
                               ELSE LET h3 == [R.heap EXCEPT ![m].right = R.node]
                                    IN  [heap |-> update(h3, m), node |-> m,
                                         ok |-> TRUE]

\* clear()
clear(st) ==
    [st EXCEPT !.heap = destroySubtree(st.heap, st.root), !.root = Null,
               !.nodeCount = 0]

\* operator=(other) on a map other than *this (the self-assignment test is in
\* the action): clear, then clone other's tree.  When the clone throws, root and
\* nodeCount keep what clear left.
assign(st, otherRoot, otherCount) ==
    LET s1 == clear(st)
        c  == cloneSubtree(s1.heap, st.this, otherRoot, Null)
    IN  IF c.ok
        THEN [st |-> [s1 EXCEPT !.heap = c.heap, !.root = c.node,
                                !.nodeCount = otherCount],
              exc |-> "none"]
        ELSE [st |-> [s1 EXCEPT !.heap = c.heap], exc |-> "bad_alloc"]

\* map(other), the copy constructor, run on the members st of an object under
\* construction (root and nodeCount start as nullptr and 0): clone other's
\* tree.  When the clone throws, no object comes to exist and the members
\* keep their initial values.
copyConstruct(st, otherRoot, otherCount) ==
    LET c == cloneSubtree(st.heap, st.this, otherRoot, Null)
    IN  IF c.ok
        THEN [st |-> [st EXCEPT !.heap = c.heap, !.root = c.node,
                                !.nodeCount = otherCount],
              exc |-> "none"]
        ELSE [st |-> [st EXCEPT !.heap = c.heap, !.root = Null, !.nodeCount = 0],
              exc |-> "bad_alloc"]

\* ------------------------------------------------------------- lookup

\* at that inserts (key, T()) when key is absent, as operator[] does.
atInserting(st, key) ==
    IF findNode(st.heap, st.root, key) # Null
    THEN [st |-> st, exc |-> "none", ref |-> findNode(st.heap, st.root, key)]
    ELSE [st |-> insert(st, key, DefaultT).st, exc |-> "none",
          ref |-> insert(st, key, DefaultT).first]

\* T &at(key), const T &at(key) const
at(st, key) ==
    LET n == findNode(st.heap, st.root, key)
    IN  IF n = Null THEN [st |-> st, exc |-> "index_out_of_bound", ref |-> Null]
        ELSE [st |-> st, exc |-> "none", ref |-> n]

\* const T &operator[](key) const
indexConst(st, key) ==
    LET n == findNode(st.heap, st.root, key)
    IN  IF n = Null THEN [st |-> st, exc |-> "index_out_of_bound", ref |-> Null]
        ELSE [st |-> st, exc |-> "none", ref |-> n]

\* operator[] that throws when key is absent, as at does.
indexThrowing(st, key) == at(st, key)

\* T &operator[](key): ref is the node whose mapped value is returned by
\* reference.
index(st, key) ==
    LET n == findNode(st.heap, st.root, key)
    IN  IF n # Null THEN [st |-> st, exc |-> "none", ref |-> n]
        ELSE LET res == insert(st, key, DefaultT)
             IN  [st |-> res.st, exc |-> res.exc, ref |-> res.first]

count(st, key) == IF findNode(st.heap, st.root, key) # Null THEN 1 ELSE 0

size(st) == st.nodeCount

empty(st) == st.nodeCount = 0

\* ------------------------------------------------------------ traversal

RECURSIVE climbWhileRight(_, _, _)
climbWhileRight(h, n, p) ==
    IF p # Null /\ n = h[p].right THEN climbWhileRight(h, p, h[p].parent) ELSE p

\* nextNode that steps to the parent without the walk upward.
nextNodeNoClimb(h, n) ==
    IF n = Null THEN Null
    ELSE IF h[n].right # Null THEN minNode(h, h[n].right)
    ELSE h[n].parent

RECURSIVE climbWhileLeft(_, _, _)
climbWhileLeft(h, n, p) ==
    IF p # Null /\ n = h[p].left THEN climbWhileLeft(h, p, h[p].parent) ELSE p

nextNode(h, n) ==
    IF n = Null THEN Null
    ELSE IF h[n].right # Null THEN minNode(h, h[n].right)
    ELSE climbWhileRight(h, n, h[n].parent)

prevNode(h, n) ==
    IF n = Null THEN Null
    ELSE IF h[n].left # Null THEN maxNode(h, h[n].left)
    ELSE climbWhileLeft(h, n, h[n].parent)

\* ------------------------------------------------------------- cursors

\* The owner of a default-constructed iterator.
NoOwner == "nullptr"

\* An iterator or const_iterator: its two fields, which of the two classes it
\* is, and (not a field of the object) whether the node it points to has been
\* deleted since the cursor was made.
Cursor(p, o, c) == [nodePtr |-> p, owner |-> o, isConst |-> c, stale |-> FALSE]

\* iterator()
DefaultCursor == Cursor(Null, NoOwner, FALSE)

begin(m) == Cursor(minNode(heap, root[m]), m, FALSE)
cbegin(m) == Cursor(minNode(heap, root[m]), m, TRUE)
end(m) == Cursor(Null, m, FALSE)
cend(m) == Cursor(Null, m, TRUE)
find(m, key) == Cursor(findNode(heap, root[m], key), m, FALSE)
findConst(m, key) == Cursor(findNode(heap, root[m], key), m, TRUE)

\* The cursor points to a deleted node: the checks of the iterator and of erase
\* (owner and nodePtr against nullptr, owner against this) let it through.
Dangling(c) == c.nodePtr # Null /\ c.stale

\* iterator::operator++()
iteratorInc(h, c) ==
    IF c.owner = NoOwner THEN [it |-> c, exc |-> "invalid_iterator"]
    ELSE IF c.nodePtr = Null THEN [it |-> c, exc |-> "invalid_iterator"]
    ELSE [it |-> [c EXCEPT !.nodePtr = nextNode(h, c.nodePtr)], exc |-> "none"]

\* iterator::operator--(), with r the owner's root
iteratorDec(h, r, c) ==
    IF c.owner = NoOwner THEN [it |-> c, exc |-> "invalid_iterator"]
    ELSE IF c.nodePtr = Null
    THEN LET n == maxNode(h, r)
         IN  IF n = Null THEN [it |-> [c EXCEPT !.nodePtr = n], exc |-> "invalid_iterator"]
             ELSE [it |-> [c EXCEPT !.nodePtr = n], exc |-> "none"]
    ELSE LET prev == prevNode(h, c.nodePtr)
         IN  IF prev = Null THEN [it |-> c, exc |-> "invalid_iterator"]
             ELSE [it |-> [c EXCEPT !.nodePtr = prev], exc |-> "none"]

\* const_iterator::operator++()
constIteratorInc(h, c) ==
    IF c.owner = NoOwner THEN [it |-> c, exc |-> "invalid_iterator"]
    ELSE IF c.nodePtr = Null THEN [it |-> c, exc |-> "invalid_iterator"]
    ELSE [it |-> [c EXCEPT !.nodePtr = nextNode(h, c.nodePtr)], exc |-> "none"]

\* const_iterator::operator--() without the step from end() to the last node.
constIteratorDecNoEnd(h, r, c) ==
    IF c.owner = NoOwner \/ c.nodePtr = Null
    THEN [it |-> c, exc |-> "invalid_iterator"]
    ELSE IF prevNode(h, c.nodePtr) = Null
    THEN [it |-> c, exc |-> "invalid_iterator"]
    ELSE [it |-> [c EXCEPT !.nodePtr = prevNode(h, c.nodePtr)], exc |-> "none"]

\* const_iterator::operator--(), with r the owner's root
constIteratorDec(h, r, c) ==
    IF c.owner = NoOwner THEN [it |-> c, exc |-> "invalid_iterator"]
    ELSE IF c.nodePtr = Null
    THEN LET n == maxNode(h, r)
         IN  IF n = Null THEN [it |-> [c EXCEPT !.nodePtr = n], exc |-> "invalid_iterator"]
             ELSE [it |-> [c EXCEPT !.nodePtr = n], exc |-> "none"]
    ELSE LET prev == prevNode(h, c.nodePtr)
         IN  IF prev = Null THEN [it |-> c, exc |-> "invalid_iterator"]
             ELSE [it |-> [c EXCEPT !.nodePtr = prev], exc |-> "none"]

\* operator*() of both classes: the node whose value is returned by reference.
deref(c) ==
    IF c.nodePtr = Null THEN [ref |-> Null, exc |-> "invalid_iterator"]
    ELSE [ref |-> c.nodePtr, exc |-> "none"]

\* erase without the test of the cursor's owner.
eraseNoOwnerCheck(st, pos) ==
    IF pos.nodePtr = Null THEN [st |-> st, exc |-> "invalid_iterator"]
    ELSE [st |-> eraseNode(st, pos.nodePtr), exc |-> "none"]

\* erase(pos)
erase(st, pos) ==
    IF pos.owner # st.this THEN [st |-> st, exc |-> "invalid_iterator"]
    ELSE IF pos.nodePtr = Null THEN [st |-> st, exc |-> "invalid_iterator"]
    ELSE [st |-> eraseNode(st, pos.nodePtr), exc |-> "none"]

\* ------------------------------------------------------------- actions

\* The nodes of the subtree under n: what destroySubtree(n) deletes.
RECURSIVE SubtreeNodes(_, _)
SubtreeNodes(h, n) ==
    IF n = Null THEN {}
    ELSE {n} \cup SubtreeNodes(h, h[n].left) \cup SubtreeNodes(h, h[n].right)

\* The last call made: the operation, how it ended ("ok", the exception it
\* threw, or "undefined") and which of its paths it took.
Call(op, res, path) == [op |-> op, res |-> res, path |-> path]

\* What a call that leaves defined behaviour can do, as far as a caller sees:
\* the process is terminated, or the call returns or throws after reading or
\* writing memory that holds no object.  The model follows neither any further.
UndefinedOutcomes ==
    {"undefined: terminated", "undefined: returned", "undefined: threw"}

Running == last.res \notin UndefinedOutcomes

\* A call that reads or writes through a pointer to a deleted node.
UseAfterFree(op) ==
    /\ \E o \in UndefinedOutcomes : last' = Call(op, o, "stale")
    /\ UNCHANGED <<heap, root, nodeCount, it>>

\* The cursor `it` after the nodes in freed have been deleted.
MarkStale(c, freed) ==
    IF c.nodePtr \in freed THEN [c EXCEPT !.stale = TRUE] ELSE c

Commit(m, st) ==
    /\ heap' = st.heap
    /\ root' = [root EXCEPT ![m] = st.root]
    /\ nodeCount' = [nodeCount EXCEPT ![m] = st.nodeCount]

\* m.insert({k, v})
Insert(m, k, v) ==
    /\ Running
    /\ LET res == insert(This(m), k, v)
       IN  /\ Commit(m, res.st)
           /\ last' = Call("insert", IF res.exc = "none" THEN "ok" ELSE res.exc,
                           IF res.second THEN "inserted"
                           ELSE IF res.exc = "none" THEN "duplicate" ELSE "")
    /\ UNCHANGED it

\* m[k]
Index(m, k) ==
    /\ Running
    /\ LET res == index(This(m), k)
       IN  /\ Commit(m, res.st)
           /\ last' = Call("index", IF res.exc = "none" THEN "ok" ELSE res.exc,
                           IF res.exc # "none" THEN ""
                           ELSE IF res.st = This(m) THEN "found" ELSE "inserted")
    /\ UNCHANGED it

\* m.at(k)
At(m, k) ==
    /\ Running
    /\ LET res == at(This(m), k)
       IN  /\ Commit(m, res.st)
           /\ last' = Call("at", IF res.exc = "none" THEN "ok" ELSE res.exc, "")
    /\ UNCHANGED it

\* m[k] on a const map
IndexConst(m, k) ==
    /\ Running
    /\ LET res == indexConst(This(m), k)
       IN  /\ Commit(m, res.st)
           /\ last' = Call("indexConst", IF res.exc = "none" THEN "ok" ELSE res.exc, "")
    /\ UNCHANGED it

\* Which path of erase and eraseNode a call m.erase(pos) takes.
ErasePath(m, pos) ==
    IF pos.owner # m THEN "foreign"
    ELSE IF pos.nodePtr = Null THEN "end"
    ELSE IF heap[pos.nodePtr].left = Null \/ heap[pos.nodePtr].right = Null
    THEN "splice"
    ELSE IF heap[heap[pos.nodePtr].right].left = Null THEN "successor is child"
    ELSE "successor is deeper"

\* m.erase(pos)
Erase(m, pos) ==
    /\ Running
    /\ IF pos.owner = m /\ Dangling(pos)
       THEN UseAfterFree("erase")
       ELSE LET res == erase(This(m), pos)
            IN  /\ Commit(m, res.st)
                /\ last' = Call("erase", IF res.exc = "none" THEN "ok" ELSE res.exc,
                                ErasePath(m, pos))
                /\ it' = IF res.exc = "none" THEN MarkStale(it, {pos.nodePtr}) ELSE it

\* m.clear()
Clear(m) ==
    /\ Running
    /\ Commit(m, clear(This(m)))
    /\ last' = Call("clear", "ok", "")
    /\ it' = MarkStale(it, SubtreeNodes(heap, root[m]))

\* m = o
Assign(m, o) ==
    /\ Running
    /\ IF m = o
       THEN /\ UNCHANGED <<heap, root, nodeCount, it>>
            /\ last' = Call("assign", "ok", "self")
       ELSE LET res == assign(This(m), root[o], nodeCount[o])
            IN  /\ Commit(m, res.st)
                /\ last' = Call("assign", IF res.exc = "none" THEN "ok" ELSE res.exc,
                                "copy")
                /\ it' = MarkStale(it, SubtreeNodes(heap, root[m]))

\* map m(o): a map object is constructed as a copy of o under the name m, which
\* names no other object then (the model keeps a map that holds nothing under
\* every name, so the name is free when that map is empty).
CopyConstruct(m, o) ==
    /\ Running
    /\ m # o
    /\ root[m] = Null /\ nodeCount[m] = 0
    /\ LET res == copyConstruct(This(m), root[o], nodeCount[o])
       IN  /\ Commit(m, res.st)
           /\ last' = Call("copy construct",
                           IF res.exc = "none" THEN "ok" ELSE res.exc, "copy")
    /\ UNCHANGED it

\* it = m.begin(), m.cbegin(), m.end(), m.cend(), m.find(k)
Begin(m, c) ==
    /\ Running
    /\ it' = IF c THEN cbegin(m) ELSE begin(m)
    /\ last' = Call("begin", "ok", "")
    /\ UNCHANGED <<heap, root, nodeCount>>

End(m, c) ==
    /\ Running
    /\ it' = IF c THEN cend(m) ELSE end(m)
    /\ last' = Call("end", "ok", "")
    /\ UNCHANGED <<heap, root, nodeCount>>

Find(m, k, c) ==
    /\ Running
    /\ it' = IF c THEN findConst(m, k) ELSE find(m, k)
    /\ last' = Call("find", "ok", "")
    /\ UNCHANGED <<heap, root, nodeCount>>

\* ++c and --c, by the class of c
CursorInc(c) ==
    IF c.isConst THEN constIteratorInc(heap, c) ELSE iteratorInc(heap, c)

CursorDec(c) ==
    LET r == IF c.owner = NoOwner THEN Null ELSE root[c.owner]
    IN  IF c.isConst THEN constIteratorDec(heap, r, c) ELSE iteratorDec(heap, r, c)

\* Which path of operator++ or operator-- a call on c takes.
StepPath(c) ==
    IF c.owner = NoOwner THEN "default"
    ELSE IF c.nodePtr = Null THEN "end"
    ELSE IF c.stale THEN "stale" ELSE "node"

\* ++it
Inc ==
    /\ Running
    /\ IF it.owner # NoOwner /\ Dangling(it)
       THEN UseAfterFree("inc")
       ELSE LET res == CursorInc(it)
            IN  /\ it' = res.it
                /\ last' = Call("inc", IF res.exc = "none" THEN "ok" ELSE res.exc,
                                StepPath(it))
                /\ UNCHANGED <<heap, root, nodeCount>>

\* --it
Dec ==
    /\ Running
    /\ IF it.owner # NoOwner /\ Dangling(it)
       THEN UseAfterFree("dec")
       ELSE LET res == CursorDec(it)
            IN  /\ it' = res.it
                /\ last' = Call("dec", IF res.exc = "none" THEN "ok" ELSE res.exc,
                                StepPath(it))
                /\ UNCHANGED <<heap, root, nodeCount>>

\* *it
Deref ==
    /\ Running
    /\ IF Dangling(it)
       THEN UseAfterFree("deref")
       ELSE LET res == deref(it)
            IN  /\ last' = Call("deref", IF res.exc = "none" THEN "ok" ELSE res.exc,
                                IF it.nodePtr = Null THEN "end" ELSE "node")
                /\ UNCHANGED <<heap, root, nodeCount, it>>

\* m.erase(it), for an iterator (erase takes no const_iterator)
EraseIt(m) == ~it.isConst /\ Erase(m, it)

\* m.erase(o.find(k)), m.erase(o.end())
EraseFind(m, o, k) == Erase(m, find(o, k))

EraseEnd(m, o) == Erase(m, end(o))

\* ------------------------------------------------------- specifications

NoCall == Call("none", "ok", "")

\* Two default-constructed maps in a heap of 2 * NumKeys cells, and a
\* default-constructed iterator.
Init ==
    /\ heap = [i \in 1..(2 * NumKeys) |-> FreeCell]
    /\ root = [m \in Maps |-> Null]
    /\ nodeCount = [m \in Maps |-> 0]
    /\ it = DefaultCursor
    /\ last = NoCall

\* The calls that change the two maps, with cursors made for the call.
Next ==
    \/ \E m \in Maps, k \in Keys : Insert(m, k, DefaultT)
    \/ \E m \in Maps, k \in Keys : Index(m, k)
    \/ \E m \in Maps, o \in Maps, k \in Keys : EraseFind(m, o, k)
    \/ \E m \in Maps, o \in Maps : EraseEnd(m, o)
    \/ \E m \in Maps : Clear(m)
    \/ \E m \in Maps, o \in Maps : Assign(m, o)

Spec == Init /\ [][Next]_vars

\* The calls on one map, with every mapped value.
NextValues ==
    \/ \E k \in Keys, v \in Vals : Insert("a", k, v)
    \/ \E k \in Keys : Index("a", k)
    \/ \E k \in Keys : At("a", k)
    \/ \E k \in Keys : IndexConst("a", k)
    \/ \E k \in Keys : EraseFind("a", "a", k)
    \/ Clear("a")

SpecValues == Init /\ [][NextValues]_vars

\* One map in a heap of NumTreeKeys cells.
InitTree ==
    /\ heap = [i \in 1..NumTreeKeys |-> FreeCell]
    /\ root = [m \in Maps |-> Null]
    /\ nodeCount = [m \in Maps |-> 0]
    /\ it = DefaultCursor
    /\ last = NoCall

NextTree ==
    \/ \E k \in TreeKeys : Insert("a", k, DefaultT)
    \/ \E k \in TreeKeys : EraseFind("a", "a", k)

SpecTree == InitTree /\ [][NextTree]_vars

\* The calls on a cursor kept across calls, with the calls that delete nodes.
NextCursor ==
    \/ \E m \in Maps, k \in CursorKeys : Insert(m, k, DefaultT)
    \/ \E m \in Maps, c \in BOOLEAN : Begin(m, c)
    \/ \E m \in Maps, c \in BOOLEAN : End(m, c)
    \/ \E m \in Maps, k \in CursorKeys, c \in BOOLEAN : Find(m, k, c)
    \/ Inc
    \/ Dec
    \/ Deref
    \/ \E m \in Maps : EraseIt(m)
    \/ \E m \in Maps : Clear(m)
    \/ \E m \in Maps, o \in Maps : Assign(m, o)

SpecCursor == Init /\ [][NextCursor]_vars

\* Two default-constructed maps in a heap of NumOomCells cells, where a new
\* expression can throw std::bad_alloc.
InitOom ==
    /\ heap = [i \in 1..NumOomCells |-> FreeCell]
    /\ root = [m \in Maps |-> Null]
    /\ nodeCount = [m \in Maps |-> 0]
    /\ it = DefaultCursor
    /\ last = NoCall

NextOom ==
    \/ \E m \in Maps, k \in Keys : Insert(m, k, DefaultT)
    \/ \E m \in Maps, k \in Keys : EraseFind(m, m, k)
    \/ \E m \in Maps : Clear(m)
    \/ \E m \in Maps, o \in Maps : Assign(m, o)

SpecOom == InitOom /\ [][NextOom]_vars

\* The value that the specification SpecCopy inserts with key k: neighbouring
\* keys get different values, and some keys a value other than T().
ValOf(k) == k % (MaxVal + 1)

\* Two maps copied into each other, whose entries are the pairs (k, ValOf(k)).
NextCopy ==
    \/ \E m \in Maps, k \in Keys : Insert(m, k, ValOf(k))
    \/ \E m \in Maps, k \in Keys : EraseFind(m, m, k)
    \/ \E m \in Maps : Clear(m)
    \/ \E m \in Maps, o \in Maps : Assign(m, o)
    \/ \E m \in Maps, o \in Maps : CopyConstruct(m, o)

SpecCopy == Init /\ [][NextCopy]_vars

\* One map and a cursor kept across the calls that insert and erase other
\* elements.
NextStable ==
    \/ \E k \in Keys : Insert("a", k, DefaultT)
    \/ \E k \in Keys : EraseFind("a", "a", k)
    \/ \E c \in BOOLEAN : Begin("a", c)
    \/ \E k \in Keys, c \in BOOLEAN : Find("a", k, c)
    \/ Inc
    \/ Dec
    \/ Deref

SpecStable == Init /\ [][NextStable]_vars

\* ----------------------------------------------------------- properties

\* The nodes a walk from node n with ++ visits until it reaches end(), in the
\* order of the walk (at most fuel of them).
RECURSIVE WalkFrom(_, _, _)
WalkFrom(h, n, fuel) ==
    IF n = Null \/ fuel = 0 THEN <<>>
    ELSE <<n>> \o WalkFrom(h, nextNode(h, n), fuel - 1)

\* The walk from begin() of the map with root r.
Walk(h, r) == WalkFrom(h, minNode(h, r), Cardinality(DOMAIN h) + 1)

Range(w) == {w[i] : i \in 1..Len(w)}

\* The nodes reachable from the root of map m.
Nodes(m) == SubtreeNodes(heap, root[m])

\* The key/value entries of the tree with root r.
Entries(h, r) == {<<h[n].key, h[n].val>> : n \in SubtreeNodes(h, r)}

\* The height of the subtree under n, counted on the tree itself.
RECURSIVE TrueHeight(_, _)
TrueHeight(h, n) ==
    IF n = Null THEN 0
    ELSE LET hl == TrueHeight(h, h[n].left)
             hr == TrueHeight(h, h[n].right)
         IN  1 + (IF hl > hr THEN hl ELSE hr)

Abs(x) == IF x < 0 THEN -x ELSE x

\* C1: in every state, a walk from begin() with ++ to end() visits every node
\* of the map once, in strictly increasing comparator order of the keys; every
\* key in a node's left subtree is less than the node's key and every key in
\* its right subtree greater; no two nodes of a map have equivalent keys.
C1_InOrderStrictlyIncreasing ==
    \A m \in Maps :
        LET w == Walk(heap, root[m])
        IN  /\ \A i \in 1..(Len(w) - 1) : cmp(heap[w[i]].key, heap[w[i + 1]].key)
            /\ Range(w) = Nodes(m)
            /\ \A n \in Nodes(m) :
                /\ \A x \in SubtreeNodes(heap, heap[n].left) :
                       cmp(heap[x].key, heap[n].key)
                /\ \A x \in SubtreeNodes(heap, heap[n].right) :
                       cmp(heap[n].key, heap[x].key)
            /\ \A x \in Nodes(m), y \in Nodes(m) :
                   x # y => ~keyEq(heap[x].key, heap[y].key)

\* An erase that grafted a successor from deeper in the right subtree has just
\* returned, and the other map holds a copy of at least two entries.
C1_Witness ==
    /\ last = Call("erase", "ok", "successor is deeper")
    /\ nodeCount["a"] >= 3
    /\ nodeCount["b"] >= 2

\* C2: in every state, the true heights of the two subtrees of every node
\* differ by at most 1.
C2_Balanced ==
    \A m \in Maps : \A n \in Nodes(m) :
        Abs(TrueHeight(heap, heap[n].left) - TrueHeight(heap, heap[n].right)) <= 1

\* An erase of a node with two children whose successor was not its right
\* child has just returned, leaving a tree of height 3 or more.
C2_Witness ==
    /\ last = Call("erase", "ok", "successor is deeper")
    /\ nodeCount["a"] >= 6
    /\ TrueHeight(heap, root["a"]) >= 3

\* C3: in every state, size() is the number of nodes reachable from the root
\* and the number of ++ steps from begin() to end(), and empty() holds exactly
\* when that number is 0.
C3_SizeIsNodeCount ==
    \A m \in Maps :
        /\ size(This(m)) = Cardinality(Nodes(m))
        /\ size(This(m)) = Len(Walk(heap, root[m]))
        /\ empty(This(m)) <=> (Len(Walk(heap, root[m])) = 0)

\* An erase has just left a map of three entries, the other map not empty.
C3_Witness ==
    /\ last.op = "erase" /\ last.res = "ok"
    /\ \E m \in Maps : nodeCount[m] = 3 /\ \A o \in Maps : nodeCount[o] >= 1

\* C4: in every state and for every key k present in a map, erase(find(k))
\* throws nothing and leaves a map in which find(k) is end(), count(k) is 0,
\* size() is one less, every other key that was present is found with the
\* value it had, and no key that was absent is found.
C4_EraseRemovesExactlyThatEntry ==
    \A m \in Maps, k \in Keys :
        findNode(heap, root[m], k) # Null =>
            LET r == erase(This(m), find(m, k))
            IN  /\ r.exc = "none"
                /\ findNode(r.st.heap, r.st.root, k) = Null
                /\ count(r.st, k) = 0
                /\ size(r.st) = size(This(m)) - 1
                /\ \A k2 \in Keys \ {k} :
                    IF findNode(heap, root[m], k2) # Null
                    THEN /\ at(r.st, k2).exc = "none"
                         /\ r.st.heap[at(r.st, k2).ref].val
                                = heap[findNode(heap, root[m], k2)].val
                    ELSE count(r.st, k2) = 0

\* erase(find(k)) has just removed a node with two children whose successor
\* was not its right child, from a map that held values other than T().
C4_Witness ==
    /\ last = Call("erase", "ok", "successor is deeper")
    /\ nodeCount["a"] = 3
    /\ \E n \in Nodes("a") : heap[n].val # DefaultT

\* C5: in every state, insert of a key that is present returns inserted = false
\* with a cursor to the node that holds the key, throws nothing and changes
\* neither the heap (the values and the shape of the tree) nor root nor size.
C5_InsertOfPresentKeyChangesNothing ==
    \A m \in Maps, k \in Keys, v \in Vals :
        findNode(heap, root[m], k) # Null =>
            insert(This(m), k, v)
                = [st |-> This(m), first |-> findNode(heap, root[m], k),
                   second |-> FALSE, exc |-> "none"]

\* An insert of a present key has just returned, on a map of three entries
\* that holds a value other than T().
C5_Witness ==
    /\ last = Call("insert", "ok", "duplicate")
    /\ nodeCount["a"] >= 3
    /\ \E n \in Nodes("a") : heap[n].val # DefaultT

\* C6: in every state, operator[](k) on an absent key throws nothing, adds the
\* one entry (k, T()) and no other, leaves every other entry as it was, makes
\* size() one more and returns a reference into the node that holds k; on a
\* present key it returns a reference into the node that holds k and changes
\* nothing.
C6_IndexInsertsDefaultWhenAbsent ==
    \A m \in Maps, k \in Keys :
        LET n == findNode(heap, root[m], k)
            r == index(This(m), k)
        IN  IF n = Null
            THEN /\ r.exc = "none"
                 /\ r.ref # Null
                 /\ r.ref = findNode(r.st.heap, r.st.root, k)
                 /\ r.st.heap[r.ref].key = k
                 /\ r.st.heap[r.ref].val = DefaultT
                 /\ size(r.st) = size(This(m)) + 1
                 /\ Cardinality(SubtreeNodes(r.st.heap, r.st.root))
                        = Cardinality(Nodes(m)) + 1
                 /\ Entries(r.st.heap, r.st.root)
                        = Entries(heap, root[m]) \cup {<<k, DefaultT>>}
            ELSE r = [st |-> This(m), exc |-> "none", ref |-> n]

\* operator[] has just inserted a fourth entry into a map that holds a value
\* other than T().
C6_Witness ==
    /\ last = Call("index", "ok", "inserted")
    /\ nodeCount["a"] = 4
    /\ \E n \in Nodes("a") : heap[n].val # DefaultT

\* C7: in every state, at(k) and the const operator[](k) throw
\* index_out_of_bound when k has no entry and return a reference into the node
\* that holds k when it has one, and change nothing in either case.
C7_AtThrowsWhenAbsent ==
    \A m \in Maps, k \in Keys :
        LET n == findNode(heap, root[m], k)
            expected == IF n = Null
                        THEN [st |-> This(m), exc |-> "index_out_of_bound",
                              ref |-> Null]
                        ELSE [st |-> This(m), exc |-> "none", ref |-> n]
        IN  /\ at(This(m), k) = expected
            /\ indexConst(This(m), k) = expected
            /\ n # Null => keyEq(heap[n].key, k)

\* at(k) has just thrown index_out_of_bound on a map of two entries or more.
C7_Witness ==
    /\ last = Call("at", "index_out_of_bound", "")
    /\ nodeCount["a"] >= 2

\* C8: in every state, erase with the end cursor of this map or of the other
\* map, or with a cursor to a node of the other map, throws invalid_iterator
\* and changes nothing in the heap, nor root, nor size.
C8_EraseOfEndOrForeignCursorThrows ==
    \A m \in Maps, o \in Maps :
        /\ erase(This(m), end(o)) = [st |-> This(m), exc |-> "invalid_iterator"]
        /\ o # m =>
            /\ erase(This(m), begin(o))
                   = [st |-> This(m), exc |-> "invalid_iterator"]
            /\ \A k \in Keys :
                   erase(This(m), find(o, k))
                       = [st |-> This(m), exc |-> "invalid_iterator"]

\* erase has just thrown on a cursor of the other map, the two maps holding
\* the same three entries or more (one is a copy of the other).
C8_Witness ==
    /\ last = Call("erase", "invalid_iterator", "foreign")
    /\ Entries(heap, root["a"]) = Entries(heap, root["b"])
    /\ nodeCount["a"] >= 3

\* C9: in every state, for the iterator and the const_iterator of every map:
\* ++ on the end cursor throws invalid_iterator; -- on the begin cursor throws
\* invalid_iterator; -- on the end cursor of a map that is not empty throws
\* nothing and yields the cursor of that map to the node of the greatest key;
\* -- on the end cursor of an empty map throws invalid_iterator.
C9_CursorBoundaries ==
    \A m \in Maps, c \in BOOLEAN :
        LET e == IF c THEN cend(m) ELSE end(m)
            b == IF c THEN cbegin(m) ELSE begin(m)
            d == CursorDec(e)
        IN  /\ CursorInc(e).exc = "invalid_iterator"
            /\ CursorDec(b).exc = "invalid_iterator"
            /\ IF root[m] = Null
               THEN d.exc = "invalid_iterator"
               ELSE /\ d.exc = "none"
                    /\ d.it.owner = m
                    /\ d.it.nodePtr \in Nodes(m)
                    /\ \A x \in Nodes(m) :
                           ~cmp(heap[d.it.nodePtr].key, heap[x].key)

\* -- has just moved a const_iterator from end() to the last node of a map of
\* three entries.
C9_Witness ==
    /\ last = Call("dec", "ok", "end")
    /\ it.isConst
    /\ it.owner \in Maps
    /\ nodeCount[it.owner] = 3
    /\ it.nodePtr = maxNode(heap, root[it.owner])

\* C10: every call that dereferences, advances, retreats or erases through a
\* cursor whose node has been deleted throws invalid_iterator.
C10_StaleCursorRaises ==
    last.path = "stale" => last.res = "invalid_iterator"

\* C11: a copy assignment m = o that leaves by std::bad_alloc from the clone
\* of o's tree leaves m with the entries and the size it had before the call.
C11_FailedAssignKeepsContents ==
    \A m \in Maps : \A o \in Maps \ {m} :
        LET r == assign(This(m), root[o], nodeCount[o])
        IN  r.exc = "bad_alloc" =>
                /\ Entries(r.st.heap, r.st.root) = Entries(heap, root[m])
                /\ size(r.st) = size(This(m))

\* The nodes of map o are in heap h2 as they are in the current heap.
Untouched(h2, o) == \A n \in Nodes(o) : h2[n] = heap[n]

\* C12: in every state, for two distinct maps m and o: the maps share no node;
\* m = o, and the construction of m as a copy of o, when they return, give m
\* the key/value entries and the size of o; and insert, operator[], erase,
\* clear, copy assignment and copy construction applied to m leave every node
\* of o, and so its entries, as they were (size and root of o are members that
\* a call on m cannot name).
C12_CopiesAreIndependent ==
    \A m \in Maps : \A o \in Maps \ {m} :
        LET r == assign(This(m), root[o], nodeCount[o])
            c == copyConstruct(This(m), root[o], nodeCount[o])
        IN  /\ Nodes(m) \cap Nodes(o) = {}
            /\ r.exc = "none" =>
                /\ Entries(r.st.heap, r.st.root) = Entries(heap, root[o])
                /\ size(r.st) = nodeCount[o]
            /\ Untouched(r.st.heap, o)
            /\ root[m] = Null /\ c.exc = "none" =>
                /\ Entries(c.st.heap, c.st.root) = Entries(heap, root[o])
                /\ size(c.st) = nodeCount[o]
            /\ Untouched(c.st.heap, o)
            /\ Untouched(clear(This(m)).heap, o)
            /\ \A k \in Keys :
                /\ Untouched(index(This(m), k).st.heap, o)
                /\ Untouched(erase(This(m), find(m, k)).st.heap, o)
                /\ \A v \in Vals : Untouched(insert(This(m), k, v).st.heap, o)

\* A map has just been constructed as a copy of a map of three entries that
\* holds a value other than T().
C12_Witness ==
    /\ last = Call("copy construct", "ok", "copy")
    /\ \E m \in Maps : \E o \in Maps \ {m} :
        /\ nodeCount[m] = 3
        /\ Entries(heap, root[o]) = Entries(heap, root[m])
        /\ \E n \in Nodes(o) : heap[n].val # DefaultT

\* insert({k, T()}) for the keys of the sequence ks, in their order.
RECURSIVE InsertAll(_, _)
InsertAll(st, ks) ==
    IF ks = <<>> THEN st
    ELSE InsertAll(insert(st, Head(ks), DefaultT).st, Tail(ks))

\* erase(find(k)) for the keys of the sequence ks, in their order.
RECURSIVE EraseAll(_, _)
EraseAll(st, ks) ==
    IF ks = <<>> THEN st
    ELSE EraseAll(erase(st, Cursor(findNode(st.heap, st.root, Head(ks)),
                                   st.this, FALSE)).st,
                  Tail(ks))

\* The sequences of distinct keys among 1..NumRoundTripKeys.
Orders ==
    {ks \in UNION {[1..n -> 1..NumRoundTripKeys] : n \in 0..NumRoundTripKeys} :
        \A i \in 1..Len(ks), j \in 1..Len(ks) : i # j => ks[i] # ks[j]}

\* C13: from every state in which the maps are empty and the heap holds no
\* node, inserting N distinct keys into a map in any order and then erasing
\* the same keys in any order leaves the map with empty() true, size() 0 and
\* no root node, and the heap with no node.
C13_InsertAllEraseAllIsEmpty ==
    (FreeCells(heap) = DOMAIN heap /\ \A o \in Maps : root[o] = Null) =>
        \A m \in Maps : \A ins \in Orders :
            LET filled == InsertAll(This(m), ins)
            IN  \A era \in {e \in Orders : Range(e) = Range(ins)} :
                    LET st == EraseAll(filled, era)
                    IN  /\ empty(st)
                        /\ size(st) = 0
                        /\ st.root = Null
                        /\ st.heap = heap

\* erase has just removed the last node of the map: the maps are empty and the
\* heap holds no node.
C13_Witness ==
    /\ last = Call("erase", "ok", "splice")
    /\ root["a"] = Null /\ nodeCount["a"] = 0
    /\ FreeCells(heap) = DOMAIN heap

\* The tree with root r in heap h has no node whose balance factor, by the
\* cached heights or by the heights counted on the tree, is beyond -1..1.
BalancedIn(h, r) ==
    \A n \in SubtreeNodes(h, r) :
        /\ Abs(balance(h, n)) <= 1
        /\ Abs(TrueHeight(h, h[n].right) - TrueHeight(h, h[n].left)) <= 1

\* C14: from every state in which the maps are empty and the heap holds no
\* node, inserting the keys 1, 2, ..., 7 in this order into a map leaves, after
\* each of the seven insertions, no node with a balance factor beyond -1..1,
\* and after the seventh a tree of seven nodes whose root has height 3.
C14_AscendingInsertsGiveHeightThree ==
    (FreeCells(heap) = DOMAIN heap /\ \A o \in Maps : root[o] = Null) =>
        \A m \in Maps : \A n \in 1..7 :
            LET st == InsertAll(This(m), [i \in 1..n |-> i])
            IN  /\ BalancedIn(st.heap, st.root)
                /\ size(st) = n
                /\ n = 7 =>
                    /\ heightOf(st.heap, st.root) = 3
                    /\ TrueHeight(st.heap, st.root) = 3

\* insert has just added a seventh key to the keys 1..7 of a map, whose tree
\* has height 3.
C14_Witness ==
    /\ last = Call("insert", "ok", "inserted")
    /\ nodeCount["a"] = 7
    /\ {heap[n].key : n \in Nodes("a")} = 1..7
    /\ heightOf(heap, root["a"]) = 3

\* C15: in every state, the cached height of every node of every map is 1 +
\* the greater of the cached heights of its children, an absent child counting
\* 0, and so is the height of its subtree counted on the tree.
C15_CachedHeights ==
    \A m \in Maps : \A n \in Nodes(m) :
        LET hl == heightOf(heap, heap[n].left)
            hr == heightOf(heap, heap[n].right)
        IN  /\ heap[n].height = 1 + (IF hl > hr THEN hl ELSE hr)
            /\ heap[n].height = TrueHeight(heap, n)

\* erase has just grafted a successor from deeper in the right subtree into
\* the place of a node with two children, leaving a tree of seven nodes whose
\* root has the cached height 4.
C15_Witness ==
    /\ last = Call("erase", "ok", "successor is deeper")
    /\ nodeCount["a"] = 7
    /\ heap[root["a"]].height = 4

\* C16: in every state and for every map, the parent of the root is nullptr,
\* every child of a node has that node as its parent, and every node other
\* than the root is the left or the right child of its parent.
C16_ParentLinks ==
    \A m \in Maps :
        /\ root[m] # Null => heap[root[m]].parent = Null
        /\ \A n \in Nodes(m) :
            /\ heap[n].left # Null => heap[heap[n].left].parent = n
            /\ heap[n].right # Null => heap[heap[n].right].parent = n
            /\ n # root[m] =>
                /\ heap[n].parent \in Nodes(m)
                /\ heap[heap[n].parent].left = n \/ heap[heap[n].parent].right = n

\* erase has just spliced a successor out from deeper in a right subtree and
\* grafted it into the place of the removed node, leaving a tree of six nodes
\* whose root has two children and whose right child has a left child.
C16_Witness ==
    /\ last = Call("erase", "ok", "successor is deeper")
    /\ nodeCount["a"] = 6
    /\ heap[root["a"]].left # Null /\ heap[root["a"]].right # Null
    /\ heap[heap[root["a"]].right].left # Null

\* C17: in every state and for every node n of every map: nextNode(n) is
\* nullptr when n holds the greatest key, and otherwise the node of the
\* smallest key greater than n's, with prevNode(nextNode(n)) = n; prevNode(n)
\* is nullptr when n holds the smallest key, and otherwise the node of the
\* greatest key smaller than n's, with nextNode(prevNode(n)) = n.
C17_NextPrevInverse ==
    \A m \in Maps : \A n \in Nodes(m) :
        LET nx == nextNode(heap, n)
            pv == prevNode(heap, n)
            greater == {x \in Nodes(m) : cmp(heap[n].key, heap[x].key)}
            smaller == {x \in Nodes(m) : cmp(heap[x].key, heap[n].key)}
        IN  /\ IF greater = {} THEN nx = Null
               ELSE /\ nx \in greater
                    /\ \A x \in greater : ~cmp(heap[x].key, heap[nx].key)
                    /\ prevNode(heap, nx) = n
            /\ IF smaller = {} THEN pv = Null
               ELSE /\ pv \in smaller
                    /\ \A x \in smaller : ~cmp(heap[pv].key, heap[x].key)
                    /\ nextNode(heap, pv) = n

\* A tree of eight nodes in which the successor of a node without right child
\* is not its parent but an ancestor further up.
C17_Witness ==
    /\ nodeCount["a"] = 8
    /\ \E n \in Nodes("a") :
        /\ heap[n].right = Null
        /\ nextNode(heap, n) # Null
        /\ nextNode(heap, n) # heap[n].parent

\* The tree under c in heap hc is a copy of the tree under n in heap hn, hanging
\* under pc: the same shape, with the same key, value and cached height at
\* each position, in nodes of its own whose parent links follow the copy.
RECURSIVE IsCopy(_, _, _, _, _)
IsCopy(hc, c, pc, hn, n) ==
    IF c = Null \/ n = Null THEN c = Null /\ n = Null
    ELSE /\ c # n
         /\ hc[c].alive
         /\ hc[c].key = hn[n].key
         /\ hc[c].val = hn[n].val
         /\ hc[c].height = hn[n].height
         /\ hc[c].parent = pc
         /\ IsCopy(hc, hc[c].left, c, hn, hn[n].left)
         /\ IsCopy(hc, hc[c].right, c, hn, hn[n].right)

\* C18: in every state, for two distinct maps m and o, a copy assignment m = o
\* and a construction of m as a copy of o that return leave m with the size of
\* o and with a tree of the shape of o's, holding at each position the key,
\* the value and the cached height o holds there, each cloned child's parent
\* being its cloned parent and the cloned root's parent nullptr.
C18_CopyIsStructurallyIdentical ==
    \A m \in Maps : \A o \in Maps \ {m} :
        LET r == assign(This(m), root[o], nodeCount[o])
            c == copyConstruct(This(m), root[o], nodeCount[o])
        IN  /\ r.exc = "none" =>
                /\ IsCopy(r.st.heap, r.st.root, Null, heap, root[o])
                /\ size(r.st) = nodeCount[o]
            /\ root[m] = Null /\ c.exc = "none" =>
                /\ IsCopy(c.st.heap, c.st.root, Null, heap, root[o])
                /\ size(c.st) = nodeCount[o]

\* A copy assignment has just returned, and each map holds a copy of the
\* other's tree of four nodes, one with a value other than T().
C18_Witness ==
    /\ last = Call("assign", "ok", "copy")
    /\ nodeCount["a"] = 4 /\ nodeCount["b"] = 4
    /\ IsCopy(heap, root["a"], Null, heap, root["b"])
    /\ \E n \in Nodes("a") : heap[n].val # DefaultT

\* C19: in every state, the cells that hold a node (allocated and not freed)
\* are exactly the nodes reachable from the roots of the maps.
C19_AllocatedIsReachable ==
    {i \in DOMAIN heap : heap[i].alive} = UNION {Nodes(m) : m \in Maps}

\* The cursor `it` points to a node that no call has deleted since the cursor
\* was obtained.
Surviving == it.nodePtr # Null /\ ~it.stale

\* The nodes of map m whose keys are greater, or smaller, than the key of n.
Greater(m, n) == {x \in Nodes(m) : cmp(heap[n].key, heap[x].key)}

Smaller(m, n) == {x \in Nodes(m) : cmp(heap[x].key, heap[n].key)}

\* A cursor to a surviving node is in its map, dereferences to that node, and
\* ++ and -- move it to its neighbours in the sorted sequence of the map as it
\* is now: ++ to the node of the smallest greater key, or to end(); -- to the
\* node of the greatest smaller key, or not at all (the cursor is begin()).
AtNeighbours ==
    Surviving =>
        LET n  == it.nodePtr
            nx == CursorInc(it)
            pv == CursorDec(it)
        IN  /\ n \in Nodes(it.owner)
            /\ deref(it) = [ref |-> n, exc |-> "none"]
            /\ nx.exc = "none"
            /\ IF Greater(it.owner, n) = {} THEN nx.it.nodePtr = Null
               ELSE /\ nx.it.nodePtr \in Greater(it.owner, n)
                    /\ \A x \in Greater(it.owner, n) :
                           ~cmp(heap[x].key, heap[nx.it.nodePtr].key)
            /\ IF Smaller(it.owner, n) = {} THEN pv.exc = "invalid_iterator"
               ELSE /\ pv.exc = "none"
                    /\ pv.it.nodePtr \in Smaller(it.owner, n)
                    /\ \A x \in Smaller(it.owner, n) :
                           ~cmp(heap[pv.it.nodePtr].key, heap[x].key)

\* A call that leaves the cursor as it is (an insert, or an erase of another
\* element) leaves its node with the key and the value it had.
KeepsEntry ==
    (Surviving /\ it' = it) =>
        /\ heap'[it.nodePtr].alive
        /\ heap'[it.nodePtr].key = heap[it.nodePtr].key
        /\ heap'[it.nodePtr].val = heap[it.nodePtr].val

\* C20: a cursor to an entry keeps dereferencing to the same key and value
\* across every insert and every erase of another element, the erase that
\* grafts the cursor's node into the place of the erased node included, and
\* ++ and -- on it yield its neighbours in the new sorted sequence.
C20_CursorsSurviveMutation == []AtNeighbours /\ [][KeepsEntry]_vars

\* erase has just removed a node with two children and grafted the node the
\* cursor points to, a successor from deeper in the right subtree, into its
\* place at the root.
C20_Witness ==
    /\ last = Call("erase", "ok", "successor is deeper")
    /\ Surviving
    /\ it.nodePtr = root["a"]
    /\ heap[it.nodePtr].left # Null /\ heap[it.nodePtr].right # Null

====
